---- MODULE Spec2Model ----
(***************************************************************************)
(* The audio playback controller of quran-memorizer (the useAudioPlayer    *)
(* hook) together with the media handle it owns, as a state machine.       *)
(*                                                                         *)
(* One step of the machine is one task of the browser's event loop: a call *)
(* of a control from the UI, the delivery of one media event to its        *)
(* handler, the continuation of play() after one of its two awaits, or a   *)
(* fallback timer firing.  The render that follows the task and the        *)
(* effects that copy state into the refs are part of the step.             *)
(*                                                                         *)
(* Numbers with fractions are kept in tenths: volume 10 is 1.0, speed 5 is *)
(* 0.5.  Times are whole seconds.                                          *)
(*                                                                         *)
(* The media handle behaves as an HTMLAudioElement does, or as the test    *)
(* double MockAudio does where the two differ (a 'pause' event dispatched  *)
(* inside pause()); which of them is a choice of each step.  Left out are  *)
(* the unmount (cleanup) and the repeat mode 'range', which no branch of   *)
(* the hook tells from 'none'.                                             *)
(***************************************************************************)
EXTENDS Integers, Sequences, FiniteSets, Bags

VARIABLES
  playbackState,             \* useState: 'idle' | 'loading' | 'playing' | 'paused' | 'error'
  playbackStateRef,          \* useRef mirror read by the fallback timer
  currentSurah,              \* useState<number | null>
  currentAyah,               \* useState<number | null>
  currentSurahRef,           \* useRef mirror read by handleEnded / handlePlay
  currentAyahRef,
  repeatMode,                \* useState (repeatModeRef is copied from it after every render)
  repeatCount,               \* useState (repeatCountRef likewise)
  currentRepeatIteration,    \* useState
  currentRepeatIterationRef, \* useRef mirror read by handleEnded
  reciterId,                 \* useState
  volume,                    \* useState, tenths
  speed,                     \* useState, tenths
  currentTime,               \* useState, seconds
  duration,                  \* useState, seconds
  audio,                     \* the HTMLAudioElement: src, paused, ended, error, currentTime, duration, volume, playbackRate
  pending,                   \* media events the element has queued, in order, not yet delivered
  calls,                     \* the play() calls suspended at one of their awaits (a bag)
  timers,                    \* fallback timers set and neither fired nor cleared
  storage,                   \* localStorage['quran-audio-preferences']
  progress,                  \* the rows of the progress table of the database (a bag)
  requests,                  \* the queries of the server suspended at one of their awaits
  out                        \* what the last task let the UI see: the callbacks of options it
                             \* invoked (onPlay, onPause, onError), 'ended' when it was
                             \* the handler of the element's 'ended' event, and 'constructed'
                             \* when it was the first render of a controller

vars == <<playbackState, playbackStateRef, currentSurah, currentAyah, currentSurahRef,
          currentAyahRef, repeatMode, repeatCount, currentRepeatIteration,
          currentRepeatIterationRef, reciterId, volume, speed, currentTime, duration,
          audio, pending, calls, timers, storage, progress, requests, out>>

ctlVars == <<playbackState, playbackStateRef, currentSurah, currentAyah, currentSurahRef,
             currentAyahRef, currentRepeatIteration, currentRepeatIterationRef>>
prefVars == <<repeatMode, repeatCount, reciterId, volume, speed, storage>>
timeVars == <<currentTime, duration>>
dbVars == <<progress, requests>>

-----------------------------------------------------------------------------
(* Bounds of the model *)

TotalVerses == 2   \* options.totalVerses: the verse count of the surah on the page
MaxSurah    == 1   \* play() is called with surahs 1..MaxSurah
MaxInFlight == 2   \* play() calls suspended at the same time
MaxCountArg == 1   \* setRepeatCount is called with 0..MaxCountArg
MaxDuration == 2   \* a verse's audio lasts 1..MaxDuration seconds

(* Program constants *)

DEFAULT_RECITER_ID   == 7
DefaultVolume        == 10
DefaultSpeed         == 10
DefaultRepeatCount   == 3

Null  == 0                       \* null of number | null
NoSrc == [s |-> 0, v |-> 0, r |-> 0, ok |-> FALSE]   \* audio.src = ''

PlaybackStates == {"idle", "loading", "playing", "paused", "error"}
RepeatModes    == {"none", "ayah", "surah"}
AVAILABLE_RECITERS == {7, 4, 3, 5, 9, 6, 10, 11, 2, 12}

Max2(a, b) == IF a >= b THEN a ELSE b
Min2(a, b) == IF a <= b THEN a ELSE b

-----------------------------------------------------------------------------
(* Source resolution *)

\* getReciterById: the catalog entry, or undefined (Null)
getReciterById(r) == IF r \in AVAILABLE_RECITERS THEN r ELSE Null

\* getAudioUrl: the URL is the (folder, surah, ayah) triple; an unknown reciter
\* gets the Alafasy folder
getAudioUrl(s, v, r) ==
  IF getReciterById(r) # Null
    THEN [s |-> s, v |-> v, r |-> r]
    ELSE [s |-> s, v |-> v, r |-> DEFAULT_RECITER_ID]

\* getValidAudioUrl that returns the preferred URL whatever the probe says;
\* C23_PreferredThenFallback rejects it
getValidAudioUrlNoFallback(s, v, r, exists, fbok) ==
  LET preferredUrl == getAudioUrl(s, v, r)
  IN [s |-> preferredUrl.s, v |-> preferredUrl.v, r |-> preferredUrl.r, ok |-> exists]

\* getValidAudioUrl: exists is the outcome of checkAudioExists on the preferred
\* URL; the fallback URL is returned without a probe, fbok is whether the media
\* handle can play it
getValidAudioUrl(s, v, r, exists, fbok) ==
  LET preferredUrl == getAudioUrl(s, v, r)
      fallbackUrl  == getAudioUrl(s, v, 7)
  IN IF exists
       THEN [s |-> preferredUrl.s, v |-> preferredUrl.v, r |-> preferredUrl.r, ok |-> TRUE]
       ELSE [s |-> fallbackUrl.s, v |-> fallbackUrl.v, r |-> fallbackUrl.r, ok |-> fbok]

-----------------------------------------------------------------------------
(* State after construction *)

\* DEFAULT_AUDIO_PREFERENCES with a repeat count of 1; C15_FirstUseDefaults
\* rejects it
defaultPreferencesCountOne ==
  [defaultReciterId |-> DEFAULT_RECITER_ID, volume |-> DefaultVolume, speed |-> DefaultSpeed,
   repeatMode |-> "none", repeatCount |-> 1]

DEFAULT_AUDIO_PREFERENCES ==
  [defaultReciterId |-> DEFAULT_RECITER_ID, volume |-> DefaultVolume, speed |-> DefaultSpeed,
   repeatMode |-> "none", repeatCount |-> DefaultRepeatCount]

\* getAudioPreferences that never reads what is stored; C13_PreferencesRestored
\* rejects it
getAudioPreferencesForgets(st) == DEFAULT_AUDIO_PREFERENCES

\* getAudioPreferences: the stored record over the defaults (st.item is what was
\* stored, st.present whether the key exists)
getAudioPreferences(st) ==
  IF st.present THEN st.item ELSE DEFAULT_AUDIO_PREFERENCES

\* saveAudioPreferences that writes the partial record over the defaults, not
\* over what is stored; C14_SaveMerges rejects it
saveAudioPreferencesOverwrites(st, field, value) ==
  [present |-> TRUE, item |-> [DEFAULT_AUDIO_PREFERENCES EXCEPT ![field] = value]]

\* saveAudioPreferences({field: value})
saveAudioPreferences(st, field, value) ==
  [present |-> TRUE, item |-> [getAudioPreferences(st) EXCEPT ![field] = value]]

NoOut == {}

Init ==
  /\ playbackState = "idle"
  /\ playbackStateRef = "idle"
  /\ currentSurah = Null
  /\ currentAyah = Null
  /\ currentSurahRef = Null
  /\ currentAyahRef = Null
  /\ repeatMode = "none"
  /\ repeatCount = DefaultRepeatCount
  /\ currentRepeatIteration = 0
  /\ currentRepeatIterationRef = 0
  /\ reciterId = DEFAULT_RECITER_ID
  /\ volume = DefaultVolume
  /\ speed = DefaultSpeed
  /\ currentTime = 0
  /\ duration = 0
  /\ audio = [src |-> NoSrc, paused |-> TRUE, ended |-> FALSE, error |-> FALSE, currentTime |-> 0,
              duration |-> 0, volume |-> DefaultVolume, playbackRate |-> DefaultSpeed]
  /\ pending = <<>>
  /\ calls = EmptyBag
  /\ timers = <<>>
  /\ storage = [present |-> TRUE, item |-> DEFAULT_AUDIO_PREFERENCES]
  /\ progress = EmptyBag
  /\ requests = EmptyBag
  /\ out = NoOut

-----------------------------------------------------------------------------
(* The media handle's primitives *)

\* audio.play(): playback runs; an element that had ended restarts from 0
audioPlay(a) ==
  [a EXCEPT !.paused = FALSE, !.ended = FALSE,
            !.currentTime = IF a.ended THEN 0 ELSE a.currentTime]

\* audio.pause()
audioPause(a) == [a EXCEPT !.paused = TRUE]

\* audio.src = url: the element drops what it had loaded and loads url
audioSetSrc(a, url) ==
  [a EXCEPT !.src = url, !.paused = TRUE, !.ended = FALSE, !.error = FALSE,
            !.currentTime = 0, !.duration = 0]

\* The element queues an event; of two events of a kind the later one is kept
Enqueue(q, e) ==
  LET Other(x) == x # e
  IN Append(SelectSeq(q, Other), e)

\* The event e reaches its handler: what the element queued before it was
\* delivered earlier or is lost (a backend may not emit an event at all)
Queued(e) == \E k \in DOMAIN pending : pending[k] = e
After(e) ==
  LET k == CHOOSE k \in DOMAIN pending : pending[k] = e
  IN SubSeq(pending, k + 1, Len(pending))

\* How a call of audio.pause() reports: the 'pause' event is dispatched inside
\* the call (MockAudio), queued for a later task (an element that was playing),
\* or not at all (an element already paused).
PauseEmits(a) == {"sync"} \cup (IF a.paused THEN {"none"} ELSE {"queued"})

-----------------------------------------------------------------------------
(* Render: effects copy state into the refs when the state changed *)

\* useEffect(() => { playbackStateRef.current = playbackState }, [playbackState]):
\* new is the state the task leaves, ref the ref as the task wrote it
SyncStateRef(new, ref) == IF new # playbackState THEN new ELSE ref

\* useEffect(() => { currentRepeatIterationRef.current = currentRepeatIteration }, ...)
SyncIterationRef(new, ref) == IF new # currentRepeatIteration THEN new ELSE ref

-----------------------------------------------------------------------------
(* Suspended play() calls and fallback timers *)

RemoveAt(q, i) == SubSeq(q, 1, i - 1) \o SubSeq(q, i + 1, Len(q))

\* the bag B with every element c replaced by F(c)
MapBag(B, F(_)) ==
  LET image == {F(c) : c \in DOMAIN B}
      Count(d) == BagCardinality([c \in {x \in DOMAIN B : F(x) = d} |-> B[c]])
  IN [d \in image |-> Count(d)]

\* a newer play() has begun: every call and timer there is belongs to an older one
Older(c) == [c EXCEPT !.stale = TRUE]
Superseded(q) == [k \in DOMAIN q |-> Older(q[k])]

\* audio.src is assigned: what the handle was loading for another call is dropped
Dropped(c) == [c EXCEPT !.cur = FALSE]

\* clearTimeout(audio._playTimeout); audio._playTimeout = null
ClearPlayTimeout(ts) ==
  LET IsFree(t) == ~t.held
  IN SelectSeq(ts, IsFree)

\* audio._playTimeout = setTimeout(...): the handle of an earlier timer is overwritten
SetPlayTimeout(ts, stale) ==
  Append([k \in DOMAIN ts |-> [ts[k] EXCEPT !.held = FALSE]],
         [stale |-> stale, held |-> TRUE])

\* selected with setCurrentAyah forgotten; C6_SelectionPaired rejects it
selectedSurahOnly(surahNumber, ayahNumber) == <<surahNumber, currentAyah>>

\* setCurrentSurah(surahNumber); setCurrentAyah(ayahNumber): the selection
\* play() leaves, as <<surah, ayah>>
selected(surahNumber, ayahNumber) == <<surahNumber, ayahNumber>>

\* play() up to its first await; ref is playbackStateRef as the task wrote it
\* before the call, cb the callbacks it invoked
playBegin(s, v, ref, cb) ==
  /\ BagCardinality(calls) < MaxInFlight
  /\ playbackState' = "loading"
  /\ playbackStateRef' = SyncStateRef("loading", ref)
  /\ currentSurah' = selected(s, v)[1]
  /\ currentAyah' = selected(s, v)[2]
  /\ currentSurahRef' = s
  /\ currentAyahRef' = v
  /\ currentRepeatIteration' = 0
  /\ currentRepeatIterationRef' = 0
  /\ calls' = MapBag(calls, Older) (+)
                SetToBag({[s |-> s, v |-> v, pc |-> "resolve",
                           reciterId |-> reciterId, volume |-> volume, speed |-> speed,
                           cur |-> FALSE, stale |-> FALSE]})
  /\ timers' = Superseded(timers)
  /\ out' = cb

\* stopBody with the phase set before the pause, so that the handler of a
\* 'pause' dispatched inside audio.pause() has the last word;
\* C4_EndOfSurahStops rejects it
stopBodyPauseWins(a, q, ref, cb, emit) ==
  /\ emit \in PauseEmits(a)
  /\ audio' = [audioPause(a) EXCEPT !.currentTime = 0, !.ended = FALSE]
  /\ pending' = IF emit = "queued" THEN Enqueue(q, "pause") ELSE q
  /\ playbackState' = IF emit = "sync" THEN "paused" ELSE "idle"
  /\ playbackStateRef' = IF emit = "sync" THEN "paused" ELSE SyncStateRef("idle", ref)
  /\ out' = IF emit = "sync" THEN cb \cup {"onPause"} ELSE cb

\* stop(); a and q are the element and its queue when stop() is called, emit
\* is how audio.pause() reports. Setting currentTime to 0 ends the ended state.
stopBody(a, q, ref, cb, emit) ==
  /\ emit \in PauseEmits(a)
  /\ audio' = [audioPause(a) EXCEPT !.currentTime = 0, !.ended = FALSE]
  /\ pending' = IF emit = "queued" THEN Enqueue(q, "pause") ELSE q
  /\ playbackState' = "idle"
  /\ playbackStateRef' = SyncStateRef("idle", IF emit = "sync" THEN "paused" ELSE ref)
  /\ out' = IF emit = "sync" THEN cb \cup {"onPause"} ELSE cb

-----------------------------------------------------------------------------
(* Controls *)

\* play() that assigns a source and starts the handle before resolving;
\* C24_LoadingBeforeSource rejects it
playAssignsAtOnce(s, v) ==
  /\ UNCHANGED dbVars
  /\ playBegin(s, v, playbackStateRef, {})
  /\ audio' = audioPlay(audioSetSrc(audio, getValidAudioUrl(s, v, reciterId, TRUE, TRUE)))
  /\ UNCHANGED <<prefVars, timeVars, pending>>

play(s, v) ==
  /\ UNCHANGED dbVars
  /\ playBegin(s, v, playbackStateRef, {})
  /\ UNCHANGED <<prefVars, timeVars, audio, pending>>

\* the continuation of play() after await getValidAudioUrl(...)
playResolved(c) ==
  /\ UNCHANGED dbVars
  /\ BagIn(c, calls)
  /\ c.pc = "resolve"
  /\ \E exists \in BOOLEAN, fbok \in BOOLEAN :
       LET url == getValidAudioUrl(c.s, c.v, c.reciterId, exists, fbok)
       IN /\ audio' = [audioPlay(audioSetSrc(audio, url)) EXCEPT
                         !.volume = c.volume, !.playbackRate = c.speed]
          /\ calls' = MapBag(calls (-) SetToBag({c}), Dropped) (+)
                        SetToBag({[c EXCEPT !.pc = "start", !.cur = TRUE]})
  /\ timers' = ClearPlayTimeout(timers)
  /\ \E q \in {<<"play", "loadstart">>, <<"loadstart", "play">>} : pending' = q
  /\ out' = {}
  /\ UNCHANGED <<ctlVars, prefVars, timeVars>>

\* playCatch without the call of onError; C7_FailureReported rejects it
playCatchNoCallback ==
  /\ playbackState' = "error"
  /\ playbackStateRef' = SyncStateRef("error", playbackStateRef)
  /\ out' = {}

\* the catch block of play()
playCatch ==
  /\ playbackState' = "error"
  /\ playbackStateRef' = SyncStateRef("error", playbackStateRef)
  /\ out' = {"onError"}

\* playSettled with a catch block that swallows the rejection;
\* C8_UnusableSourceIsError rejects it
playSettledSwallows(c, started) ==
  /\ UNCHANGED dbVars
  /\ BagIn(c, calls)
  /\ c.pc = "start"
  /\ started => (c.cur /\ audio.src.ok /\ ~audio.error)
  /\ calls' = calls (-) SetToBag({c})
  /\ timers' = IF started THEN SetPlayTimeout(timers, c.stale) ELSE timers
  /\ out' = {}
  /\ UNCHANGED <<ctlVars, prefVars, timeVars, audio, pending>>

\* the continuation of play() after await audioRef.current.play(): the promise
\* resolved (started) or rejected. The handle starts only a source it can play,
\* and rejects the promise of a load that a later audio.src = ... replaced.
playSettled(c, started) ==
  /\ UNCHANGED dbVars
  /\ BagIn(c, calls)
  /\ c.pc = "start"
  /\ started => (c.cur /\ audio.src.ok /\ ~audio.error)
  /\ calls' = calls (-) SetToBag({c})
  /\ IF started
       THEN /\ timers' = SetPlayTimeout(timers, c.stale)
            /\ out' = {}
            /\ UNCHANGED <<playbackState, playbackStateRef>>
       ELSE /\ timers' = timers
            /\ playCatch
  /\ UNCHANGED <<currentSurah, currentAyah, currentSurahRef, currentAyahRef,
                 currentRepeatIteration, currentRepeatIterationRef,
                 prefVars, timeVars, audio, pending>>

\* the fallback timer set by play() fires
playTimeout(j) ==
  /\ UNCHANGED dbVars
  /\ j \in DOMAIN timers
  /\ timers' = RemoveAt(timers, j)
  /\ IF playbackStateRef = "loading"
       THEN playbackState' = "playing" /\ playbackStateRef' = "playing"
       ELSE UNCHANGED <<playbackState, playbackStateRef>>
  /\ out' = {}
  /\ UNCHANGED <<currentSurah, currentAyah, currentSurahRef, currentAyahRef,
                 currentRepeatIteration, currentRepeatIterationRef,
                 prefVars, timeVars, audio, pending, calls>>

\* pause(); emit is how audio.pause() reports
pause(emit) ==
  /\ UNCHANGED dbVars
  /\ emit \in PauseEmits(audio)
  /\ audio' = audioPause(audio)
  /\ pending' = IF emit = "queued" THEN Enqueue(pending, "pause") ELSE pending
  /\ IF emit = "sync"
       THEN playbackState' = "paused" /\ playbackStateRef' = "paused"
       ELSE UNCHANGED <<playbackState, playbackStateRef>>
  /\ out' = IF emit = "sync" THEN {"onPause"} ELSE {}
  /\ UNCHANGED <<currentSurah, currentAyah, currentSurahRef, currentAyahRef,
                 currentRepeatIteration, currentRepeatIterationRef,
                 prefVars, timeVars, calls, timers>>

stop(emit) ==
  /\ UNCHANGED dbVars
  /\ stopBody(audio, pending, playbackStateRef, {}, emit)
  /\ UNCHANGED <<currentSurah, currentAyah, currentSurahRef, currentAyahRef,
                 currentRepeatIteration, currentRepeatIterationRef,
                 prefVars, timeVars, calls, timers>>

\* togglePlayPause that never resumes: whenever the phase is not 'playing' it
\* begins play() of the selection anew; C20_Toggle rejects it
togglePlayPauseAlwaysReplays(emit, rejected) ==
  /\ UNCHANGED dbVars
  /\ IF playbackState = "playing"
       THEN /\ ~rejected
            /\ pause(emit)
       ELSE /\ emit = "none"
            /\ ~rejected
            /\ IF currentSurah # Null /\ currentAyah # Null
                 THEN /\ playBegin(currentSurah, currentAyah, playbackStateRef, {})
                      /\ UNCHANGED <<prefVars, timeVars, audio, pending>>
                 ELSE /\ out' = {}
                      /\ UNCHANGED <<ctlVars, prefVars, timeVars, audio, pending, calls, timers>>

\* togglePlayPause that with nothing selected begins the first verse of the
\* first surah; C19_ToggleWithoutSelection rejects it
togglePlayPauseStartsFirst(emit, rejected) ==
  /\ UNCHANGED dbVars
  /\ IF playbackState = "playing"
       THEN /\ ~rejected
            /\ pause(emit)
       ELSE /\ emit = "none"
            /\ IF currentSurah # Null /\ currentAyah # Null
                 THEN IF audio.src # NoSrc /\ ~audio.ended
                        THEN /\ rejected => (audio.paused \/ ~audio.src.ok)
                             /\ audio' = audioPlay(audio)
                             /\ pending' = Enqueue(pending, "play")
                             /\ out' = IF rejected THEN {"onError"} ELSE {}
                             /\ UNCHANGED <<ctlVars, prefVars, timeVars, calls, timers>>
                        ELSE /\ ~rejected
                             /\ playBegin(currentSurah, currentAyah, playbackStateRef, {})
                             /\ UNCHANGED <<prefVars, timeVars, audio, pending>>
                 ELSE /\ ~rejected
                      /\ playBegin(1, 1, playbackStateRef, {})
                      /\ UNCHANGED <<prefVars, timeVars, audio, pending>>

\* togglePlayPause(); the catch of the resume branch only calls onError, so
\* it is taken in the step of the call.
\* rejected: the promise of audio.play() in the resume branch rejects (the
\* browser does not allow the start, or the source cannot be played); an
\* element that is playing a source it can play resolves the promise
togglePlayPause(emit, rejected) ==
  /\ UNCHANGED dbVars
  /\ IF playbackState = "playing"
       THEN /\ ~rejected
            /\ pause(emit)
       ELSE /\ emit = "none"
            /\ IF currentSurah # Null /\ currentAyah # Null
                 THEN IF audio.src # NoSrc /\ ~audio.ended
                        THEN /\ rejected => (audio.paused \/ ~audio.src.ok)
                             /\ audio' = audioPlay(audio)
                             /\ pending' = Enqueue(pending, "play")
                             /\ out' = IF rejected THEN {"onError"} ELSE {}
                             /\ UNCHANGED <<ctlVars, prefVars, timeVars, calls, timers>>
                        ELSE /\ ~rejected
                             /\ playBegin(currentSurah, currentAyah, playbackStateRef, {})
                             /\ UNCHANGED <<prefVars, timeVars, audio, pending>>
                 ELSE /\ ~rejected
                      /\ out' = {}
                      /\ UNCHANGED <<ctlVars, prefVars, timeVars, audio, pending, calls, timers>>

\* playNext(totalVerses?): tv = 0 is a call without the argument
playNext(tv, emit) ==
  /\ UNCHANGED dbVars
  /\ LET nextAyah == IF tv # 0 /\ currentAyah < tv THEN currentAyah + 1 ELSE Null
     IN IF currentAyah = Null \/ currentSurah = Null
          THEN /\ emit = "none"
               /\ out' = {}
               /\ UNCHANGED <<ctlVars, prefVars, timeVars, audio, pending, calls, timers>>
          ELSE IF nextAyah # Null
             THEN /\ emit = "none"
                  /\ playBegin(currentSurah, nextAyah, playbackStateRef, {})
                  /\ UNCHANGED <<prefVars, timeVars, audio, pending>>
             ELSE IF repeatMode = "surah"
               THEN /\ emit = "none"
                    /\ playBegin(currentSurah, 1, playbackStateRef, {})
                    /\ UNCHANGED <<prefVars, timeVars, audio, pending>>
               ELSE /\ stopBody(audio, pending, playbackStateRef, {}, emit)
                    /\ UNCHANGED <<currentSurah, currentAyah, currentSurahRef, currentAyahRef,
                                   currentRepeatIteration, currentRepeatIterationRef,
                                   prefVars, timeVars, calls, timers>>

\* canPlayNext that ignores the repeat mode; C18_CanPlay rejects it
canPlayNextNoLoop(totalVerses) ==
  IF currentAyah = Null \/ currentSurah = Null
    THEN FALSE
    ELSE currentAyah < totalVerses

\* canPlayNext(totalVerses)
canPlayNext(totalVerses) ==
  IF currentAyah = Null \/ currentSurah = Null
    THEN FALSE
    ELSE currentAyah < totalVerses \/ repeatMode = "surah"

\* canPlayPrevious(): only the verse is looked at
canPlayPrevious ==
  IF currentAyah = Null
    THEN FALSE
    ELSE currentAyah > 1

\* playPrevious that at verse 1 plays verse 1 again; C17_PreviousOrNothing
\* rejects it
playPreviousRestarts ==
  /\ UNCHANGED dbVars
  /\ IF currentAyah # Null /\ currentSurah # Null
       THEN /\ playBegin(currentSurah, Max2(1, currentAyah - 1), playbackStateRef, {})
            /\ UNCHANGED <<prefVars, timeVars, audio, pending>>
       ELSE /\ out' = {}
            /\ UNCHANGED <<ctlVars, prefVars, timeVars, audio, pending, calls, timers>>

playPrevious ==
  /\ UNCHANGED dbVars
  /\ LET prevAyah == IF currentAyah > 1 THEN currentAyah - 1 ELSE Null
     IN IF currentAyah # Null /\ currentSurah # Null /\ prevAyah # Null
             THEN /\ playBegin(currentSurah, prevAyah, playbackStateRef, {})
                  /\ UNCHANGED <<prefVars, timeVars, audio, pending>>
             ELSE /\ out' = {}
                  /\ UNCHANGED <<ctlVars, prefVars, timeVars, audio, pending, calls, timers>>

-----------------------------------------------------------------------------
(* Setters *)

\* clampedVolume without the lower bound; C9_SettersClamp rejects it
clampedVolumeNoFloor(newVolume) == Min2(10, newVolume)

\* Math.max(0, Math.min(1, newVolume))
clampedVolume(newVolume) == Max2(0, Min2(10, newVolume))

\* Math.max(0.5, Math.min(2, newSpeed))
clampedSpeed(newSpeed) == Max2(5, Min2(20, newSpeed))

\* Math.max(1, Math.min(10, count))
clampedCount(count) == Max2(1, Min2(10, count))

\* seekPosition without the lower bound; C10_SeekClampsHandle rejects it
seekPositionNoFloor(time, dur) == Min2(time, dur)

\* Math.max(0, Math.min(time, duration))
seekPosition(time, dur) == Max2(0, Min2(time, dur))

setVolume(newVolume) ==
  /\ UNCHANGED dbVars
  /\ LET clamped == clampedVolume(newVolume)
     IN /\ volume' = clamped
        /\ IF clamped # volume
             THEN /\ audio' = [audio EXCEPT !.volume = clamped]
                  /\ storage' = saveAudioPreferences(storage, "volume", clamped)
             ELSE UNCHANGED <<audio, storage>>
        /\ out' = {}
        /\ UNCHANGED <<ctlVars, repeatMode, repeatCount, reciterId, speed, timeVars,
                       pending, calls, timers>>

setSpeed(newSpeed) ==
  /\ UNCHANGED dbVars
  /\ LET clamped == clampedSpeed(newSpeed)
     IN /\ speed' = clamped
        /\ IF clamped # speed
             THEN /\ audio' = [audio EXCEPT !.playbackRate = clamped]
                  /\ storage' = saveAudioPreferences(storage, "speed", clamped)
             ELSE UNCHANGED <<audio, storage>>
        /\ out' = {}
        /\ UNCHANGED <<ctlVars, repeatMode, repeatCount, reciterId, volume, timeVars,
                       pending, calls, timers>>

\* setRepeatMode that leaves the repeat iteration alone; C21_ModeZeroesIteration
\* rejects it
setRepeatModeKeepsIteration(mode) ==
  /\ UNCHANGED dbVars
  /\ repeatMode' = mode
  /\ storage' = IF mode # repeatMode
                  THEN saveAudioPreferences(storage, "repeatMode", mode)
                  ELSE storage
  /\ out' = {}
  /\ UNCHANGED <<ctlVars, repeatCount, reciterId, volume, speed,
                 timeVars, audio, pending, calls, timers>>

setRepeatMode(mode) ==
  /\ UNCHANGED dbVars
  /\ repeatMode' = mode
  /\ currentRepeatIteration' = 0
  /\ currentRepeatIterationRef' = SyncIterationRef(0, currentRepeatIterationRef)
  /\ storage' = IF mode # repeatMode
                  THEN saveAudioPreferences(storage, "repeatMode", mode)
                  ELSE storage
  /\ out' = {}
  /\ UNCHANGED <<playbackState, playbackStateRef, currentSurah, currentAyah,
                 currentSurahRef, currentAyahRef, repeatCount, reciterId, volume, speed,
                 timeVars, audio, pending, calls, timers>>

setRepeatCount(count) ==
  /\ UNCHANGED dbVars
  /\ LET clamped == clampedCount(count)
     IN /\ repeatCount' = clamped
        /\ storage' = IF clamped # repeatCount
                        THEN saveAudioPreferences(storage, "repeatCount", clamped)
                        ELSE storage
        /\ out' = {}
        /\ UNCHANGED <<ctlVars, repeatMode, reciterId, volume, speed, timeVars,
                       audio, pending, calls, timers>>

\* setReciterId that points the loaded source at the new reciter at once;
\* C22_ReciterOnlyForNextPlay rejects it
setReciterIdReloads(newReciterId) ==
  /\ UNCHANGED dbVars
  /\ reciterId' = newReciterId
  /\ storage' = IF newReciterId # reciterId
                  THEN saveAudioPreferences(storage, "defaultReciterId", newReciterId)
                  ELSE storage
  /\ audio' = IF audio.src # NoSrc
                THEN audioSetSrc(audio, [audio.src EXCEPT !.r = newReciterId])
                ELSE audio
  /\ out' = {}
  /\ UNCHANGED <<ctlVars, repeatMode, repeatCount, volume, speed, timeVars,
                 pending, calls, timers>>

setReciterId(newReciterId) ==
  /\ UNCHANGED dbVars
  /\ reciterId' = newReciterId
  /\ storage' = IF newReciterId # reciterId
                  THEN saveAudioPreferences(storage, "defaultReciterId", newReciterId)
                  ELSE storage
  /\ out' = {}
  /\ UNCHANGED <<ctlVars, repeatMode, repeatCount, volume, speed, timeVars,
                 audio, pending, calls, timers>>

seek(time) ==
  /\ UNCHANGED dbVars
  /\ LET pos == seekPosition(time, duration)
     IN /\ audio' = [audio EXCEPT !.currentTime = pos,
                                  !.ended = IF pos < audio.duration THEN FALSE ELSE audio.ended]
        /\ currentTime' = time
        /\ out' = {}
        /\ UNCHANGED <<ctlVars, prefVars, duration, pending, calls, timers>>

-----------------------------------------------------------------------------
(* Media events, each delivered to its handler *)

handleLoadStart ==
  /\ UNCHANGED dbVars
  /\ Queued("loadstart")
  /\ pending' = After("loadstart")
  /\ playbackState' = "loading"
  /\ playbackStateRef' = SyncStateRef("loading", playbackStateRef)
  /\ out' = {}
  /\ UNCHANGED <<currentSurah, currentAyah, currentSurahRef, currentAyahRef,
                 currentRepeatIteration, currentRepeatIterationRef,
                 prefVars, timeVars, audio, calls, timers>>

handlePlay ==
  /\ UNCHANGED dbVars
  /\ Queued("play")
  /\ pending' = After("play")
  /\ timers' = ClearPlayTimeout(timers)
  /\ playbackState' = "playing"
  /\ playbackStateRef' = "playing"
  /\ audio' = [audio EXCEPT !.playbackRate = speed, !.volume = volume]
  /\ out' = IF currentSurahRef # Null /\ currentAyahRef # Null
                      THEN {"onPlay"} ELSE {}
  /\ UNCHANGED <<currentSurah, currentAyah, currentSurahRef, currentAyahRef,
                 currentRepeatIteration, currentRepeatIterationRef,
                 prefVars, timeVars, calls>>

handlePause ==
  /\ UNCHANGED dbVars
  /\ Queued("pause")
  /\ pending' = After("pause")
  /\ playbackState' = "paused"
  /\ playbackStateRef' = "paused"
  /\ out' = {"onPause"}
  /\ UNCHANGED <<currentSurah, currentAyah, currentSurahRef, currentAyahRef,
                 currentRepeatIteration, currentRepeatIterationRef,
                 prefVars, timeVars, audio, calls, timers>>

\* the source fails to load or decode, or the network breaks mid-stream
handleError ==
  /\ UNCHANGED dbVars
  /\ audio.src # NoSrc
  /\ ~audio.ended
  /\ ~audio.error
  /\ audio' = [audio EXCEPT !.error = TRUE]
  /\ playbackState' = "error"
  /\ playbackStateRef' = SyncStateRef("error", playbackStateRef)
  /\ out' = {"onError"}
  /\ UNCHANGED <<currentSurah, currentAyah, currentSurahRef, currentAyahRef,
                 currentRepeatIteration, currentRepeatIterationRef,
                 prefVars, timeVars, pending, calls, timers>>

\* 'timeupdate': the element reports its position p. A playing element has
\* moved on, a paused one is where it was put.
handleTimeUpdate(p) ==
  /\ UNCHANGED dbVars
  /\ audio.src # NoSrc
  /\ p \in audio.currentTime..audio.duration
  /\ audio.paused => p = audio.currentTime
  /\ audio' = [audio EXCEPT !.currentTime = p]
  /\ currentTime' = p
  /\ out' = {}
  /\ UNCHANGED <<ctlVars, prefVars, duration, pending, calls, timers>>

\* 'loadedmetadata': the element has learnt that its source lasts d seconds
handleLoadedMetadata(d) ==
  /\ UNCHANGED dbVars
  /\ audio.src # NoSrc
  /\ audio.src.ok
  /\ audio.duration = 0
  /\ audio' = [audio EXCEPT !.duration = d]
  /\ duration' = d
  /\ out' = {}
  /\ UNCHANGED <<ctlVars, prefVars, currentTime, pending, calls, timers>>

\* repeatsLeft off by one (one playing too many); C3_RepeatVerse rejects it
repeatsLeftOffByOne(iteration, currentRepeatCount) == iteration < currentRepeatCount

\* handleEnded, 'ayah' mode: the verse is played again
repeatsLeft(iteration, currentRepeatCount) == iteration < currentRepeatCount - 1

\* nextAfterEnded without the wrap to verse 1 in 'surah' mode; C5_SurahLoops
\* rejects it
nextAfterEndedNoWrap(currentRepeatMode, currentAyahNum, currentTotalVerses) ==
  IF currentAyahNum + 1 <= currentTotalVerses THEN currentAyahNum + 1 ELSE Null

\* nextAfterEnded that passes over a verse; C30_UnattendedPlayback rejects it
nextAfterEndedSkips(currentRepeatMode, currentAyahNum, currentTotalVerses) ==
  LET nextAyah == currentAyahNum + 2
  IN IF currentRepeatMode = "surah"
       THEN IF nextAyah > currentTotalVerses THEN 1 ELSE nextAyah
       ELSE IF nextAyah <= currentTotalVerses THEN nextAyah ELSE Null

\* handleEnded, past the repeats: the verse to play next, Null for stop()
nextAfterEnded(currentRepeatMode, currentAyahNum, currentTotalVerses) ==
  LET nextAyah == currentAyahNum + 1
  IN IF currentRepeatMode = "surah"
       THEN IF nextAyah > currentTotalVerses THEN 1 ELSE nextAyah
       ELSE IF nextAyah <= currentTotalVerses THEN nextAyah ELSE Null

\* The loaded source plays to its end. The element is then paused and has
\* ended, and what it had queued is past; pauseFirst: it dispatches 'pause'
\* before 'ended' (both in one task).
\* emit is how audio.pause() reports if the handler calls stop().
handleEnded(pauseFirst, emit) ==
  /\ UNCHANGED dbVars
  /\ LET ref0   == IF pauseFirst THEN "paused" ELSE playbackStateRef
         state0 == IF pauseFirst THEN "paused" ELSE playbackState
         cb0    == IF pauseFirst THEN {"ended", "onPause"} ELSE {"ended"}
         finished  == [audio EXCEPT !.paused = TRUE, !.ended = TRUE]
         iteration == currentRepeatIterationRef
         nextAyah  == nextAfterEnded(repeatMode, currentAyahRef, TotalVerses)
         \* the iteration as the 'ayah' branch leaves it when the count is used up
         iterSt == IF repeatMode = "ayah" THEN 0 ELSE currentRepeatIteration
         iterRf == IF repeatMode = "ayah" THEN 0 ELSE currentRepeatIterationRef
         Stop == /\ stopBody(finished, <<>>, ref0, cb0, emit)
                 /\ currentRepeatIteration' = iterSt
                 /\ currentRepeatIterationRef' = SyncIterationRef(iterSt, iterRf)
                 /\ UNCHANGED <<currentSurah, currentAyah, currentSurahRef, currentAyahRef,
                                calls, timers>>
         Play(s, v) == /\ emit = "none"
                       /\ playBegin(s, v, ref0, cb0)
                       /\ audio' = finished
                       /\ pending' = <<>>
     IN /\ audio.src # NoSrc
        /\ audio.src.ok
        /\ ~audio.paused
        /\ ~audio.ended
        /\ ~audio.error
        /\ \A c \in BagToSet(calls) : ~(c.pc = "start" /\ c.cur)
        /\ UNCHANGED <<prefVars, timeVars>>
        /\ IF repeatMode = "ayah" /\ repeatsLeft(iteration, repeatCount)
             THEN /\ emit = "none"
                  /\ currentRepeatIteration' = iteration + 1
                  /\ currentRepeatIterationRef' = iteration + 1
                  /\ audio' = audioPlay(finished)
                  /\ pending' = <<"play">>
                  /\ playbackState' = state0
                  /\ playbackStateRef' = SyncStateRef(state0, ref0)
                  /\ out' = cb0
                  /\ UNCHANGED <<currentSurah, currentAyah, currentSurahRef, currentAyahRef,
                                 calls, timers>>
             ELSE IF currentSurahRef # Null /\ currentAyahRef # Null
                    THEN IF nextAyah # Null
                           THEN Play(currentSurahRef, nextAyah)
                           ELSE Stop
                    ELSE Stop

-----------------------------------------------------------------------------
(* The controller in use: every control and every media event *)

Surahs == 1..MaxSurah
Verses == 1..TotalVerses
Emits  == {"sync", "queued", "none"}

Next ==
  \/ \E s \in Surahs, v \in Verses : play(s, v)
  \/ \E c \in BagToSet(calls) : playResolved(c)
  \/ \E c \in BagToSet(calls), started \in BOOLEAN : playSettled(c, started)
  \/ \E j \in DOMAIN timers : playTimeout(j)
  \/ \E e \in Emits : pause(e)
  \/ \E e \in Emits : stop(e)
  \/ \E e \in Emits, rejected \in BOOLEAN : togglePlayPause(e, rejected)
  \/ \E tv \in {0, TotalVerses}, e \in Emits : playNext(tv, e)
  \/ playPrevious
  \/ \E m \in RepeatModes : setRepeatMode(m)
  \/ \E n \in 0..MaxCountArg : setRepeatCount(n)
  \/ handleLoadStart
  \/ handlePlay
  \/ handlePause
  \/ handleError
  \/ \E pf \in BOOLEAN, e \in Emits : handleEnded(pf, e)

Spec == Init /\ [][Next]_vars

-----------------------------------------------------------------------------
(* One listener who waits: a control is called only when no play() call is  *)
(* suspended.  Media events, continuations and timers come when they come,  *)
(* so the auto-advance of handleEnded still overlaps a call the user made.  *)

Control ==
  \/ \E s \in Surahs, v \in Verses : play(s, v)
  \/ \E e \in Emits : pause(e)
  \/ \E e \in Emits : stop(e)
  \/ \E e \in Emits, rejected \in BOOLEAN : togglePlayPause(e, rejected)
  \/ \E tv \in {0, TotalVerses}, e \in Emits : playNext(tv, e)
  \/ playPrevious
  \/ \E m \in RepeatModes : setRepeatMode(m)
  \/ \E n \in 0..MaxCountArg : setRepeatCount(n)

Event ==
  \/ \E c \in BagToSet(calls) : playResolved(c)
  \/ \E c \in BagToSet(calls), started \in BOOLEAN : playSettled(c, started)
  \/ \E j \in DOMAIN timers : playTimeout(j)
  \/ handleLoadStart
  \/ handlePlay
  \/ handlePause
  \/ handleError
  \/ \E pf \in BOOLEAN, e \in Emits : handleEnded(pf, e)

NextSolo ==
  \/ calls = EmptyBag /\ Control
  \/ Event

SpecSolo == Init /\ [][NextSolo]_vars

-----------------------------------------------------------------------------
(* Two play() calls racing: the UI calls play() while an earlier call is    *)
(* still suspended (a tap on another verse, the next / previous buttons).   *)

NextRace ==
  \/ \E s \in Surahs, v \in Verses : play(s, v)
  \/ \E c \in BagToSet(calls) : playResolved(c)
  \/ \E c \in BagToSet(calls), started \in BOOLEAN : playSettled(c, started)
  \/ \E j \in DOMAIN timers : playTimeout(j)
  \/ \E e \in Emits : pause(e)
  \/ \E e \in Emits : stop(e)
  \/ handleLoadStart
  \/ handlePlay
  \/ handlePause
  \/ handleError

SpecRace == Init /\ [][NextRace]_vars

-----------------------------------------------------------------------------
(* The settings panel: the setters are called with what a slider, a number  *)
(* field or a caller's arithmetic may hand them, in range and out of it.    *)

VolumeArgs  == {-5, 5, 50}      \* -0.5, 0.5, 5.0
SpeedArgs   == {1, 15, 30}      \* 0.1, 1.5, 3.0
CountArgs   == {-1, 0, 5, 99}
ReciterArgs == {4, 7}

NextKnobs ==
  \/ \E x \in VolumeArgs : setVolume(x)
  \/ \E x \in SpeedArgs : setSpeed(x)
  \/ \E n \in CountArgs : setRepeatCount(n)
  \/ \E r \in ReciterArgs : setReciterId(r)
  \/ \E m \in RepeatModes : setRepeatMode(m)

SpecKnobs == Init /\ [][NextKnobs]_vars

-----------------------------------------------------------------------------
(* The seek bar: one verse is loaded and played, the position is dragged to *)
(* any second from before the start to past the end.                        *)

SeekArgs == -1..(MaxDuration + 1)

NextSeek ==
  \/ calls = EmptyBag /\ audio.src = NoSrc /\ play(1, 1)
  \/ \E c \in BagToSet(calls) : playResolved(c)
  \/ \E c \in BagToSet(calls), started \in BOOLEAN : playSettled(c, started)
  \/ \E j \in DOMAIN timers : playTimeout(j)
  \/ handleLoadStart
  \/ handlePlay
  \/ \E d \in 1..MaxDuration : handleLoadedMetadata(d)
  \/ \E p \in 0..MaxDuration : handleTimeUpdate(p)
  \/ \E e \in Emits : pause(e)
  \/ \E time \in SeekArgs : seek(time)

SpecSeek == Init /\ [][NextSeek]_vars

-----------------------------------------------------------------------------
(* Construction.  The page is opened again: a fresh controller is built     *)
(* from what localStorage holds, and its mount effects save every field.    *)

PrefFields == {"defaultReciterId", "volume", "speed", "repeatMode", "repeatCount"}

\* isPlaying()
isPlaying == playbackState = "playing"

\* useAudioPlayer() without options, first render and mount effects, on a
\* browser whose localStorage is st
constructOn(st) ==
  /\ UNCHANGED dbVars
  /\ LET savedPrefs == getAudioPreferences(st)
         validReciterId == IF savedPrefs.defaultReciterId # 0
                              /\ savedPrefs.defaultReciterId \in AVAILABLE_RECITERS
                             THEN savedPrefs.defaultReciterId
                             ELSE 7
         s1 == saveAudioPreferences(st, "volume", savedPrefs.volume)
         s2 == saveAudioPreferences(s1, "speed", savedPrefs.speed)
         s3 == saveAudioPreferences(s2, "repeatMode", savedPrefs.repeatMode)
         s4 == saveAudioPreferences(s3, "repeatCount", savedPrefs.repeatCount)
         s5 == saveAudioPreferences(s4, "defaultReciterId", validReciterId)
     IN /\ playbackState' = "idle"
        /\ playbackStateRef' = "idle"
        /\ currentSurah' = Null
        /\ currentAyah' = Null
        /\ currentSurahRef' = Null
        /\ currentAyahRef' = Null
        /\ currentTime' = 0
        /\ duration' = 0
        /\ volume' = savedPrefs.volume
        /\ speed' = savedPrefs.speed
        /\ repeatMode' = savedPrefs.repeatMode
        /\ repeatCount' = savedPrefs.repeatCount
        /\ currentRepeatIteration' = 0
        /\ currentRepeatIterationRef' = 0
        /\ reciterId' = validReciterId
        /\ audio' = [src |-> NoSrc, paused |-> TRUE, ended |-> FALSE, error |-> FALSE,
                     currentTime |-> 0, duration |-> 0,
                     volume |-> savedPrefs.volume, playbackRate |-> savedPrefs.speed]
        /\ pending' = <<>>
        /\ calls' = EmptyBag
        /\ timers' = <<>>
        /\ storage' = s5
        /\ out' = {"constructed"}

\* the page is opened again in the same browser
construct == constructOn(storage)

\* the page is opened in a browser that holds no preferences (localStorage
\* was cleared, or the app is used for the first time)
firstUse == constructOn([present |-> FALSE, item |-> DEFAULT_AUDIO_PREFERENCES])

StoredReciterArgs == {4, 7, 99}      \* 99 is no reciter of the catalog

NextPrefs ==
  \/ \E x \in VolumeArgs : setVolume(x)
  \/ \E x \in SpeedArgs : setSpeed(x)
  \/ \E n \in CountArgs : setRepeatCount(n)
  \/ \E r \in StoredReciterArgs : setReciterId(r)
  \/ \E m \in RepeatModes : setRepeatMode(m)
  \/ construct
  \/ firstUse

SpecPrefs == Init /\ [][NextPrefs]_vars

-----------------------------------------------------------------------------
(* The transport bar: a verse is loaded and played, its position is shown,  *)
(* and playback is paused and stopped.                                      *)

NextTransport ==
  \/ calls = EmptyBag /\ \E v \in Verses : play(1, v)
  \/ \E c \in BagToSet(calls) : playResolved(c)
  \/ \E c \in BagToSet(calls), started \in BOOLEAN : playSettled(c, started)
  \/ \E j \in DOMAIN timers : playTimeout(j)
  \/ handleLoadStart
  \/ handlePlay
  \/ handlePause
  \/ \E d \in 1..MaxDuration : handleLoadedMetadata(d)
  \/ \E p \in 0..MaxDuration : handleTimeUpdate(p)
  \/ \E e \in Emits : pause(e)
  \/ \E e \in Emits : stop(e)

SpecTransport == Init /\ [][NextTransport]_vars

-----------------------------------------------------------------------------
(* The play / pause button: verses are started one at a time, the button is  *)
(* pressed at any moment, also while a call is suspended or a verse has just *)
(* ended, and the repeat mode is changed between presses.                    *)

NextToggle ==
  \/ calls = EmptyBag /\ \E v \in Verses : play(1, v)
  \/ \E c \in BagToSet(calls) : playResolved(c)
  \/ \E c \in BagToSet(calls), started \in BOOLEAN : playSettled(c, started)
  \/ handleLoadStart
  \/ handlePlay
  \/ handlePause
  \/ \E pf \in BOOLEAN, e \in Emits : handleEnded(pf, e)
  \/ \E e \in Emits, rejected \in BOOLEAN : togglePlayPause(e, rejected)
  \/ \E m \in RepeatModes : setRepeatMode(m)

SpecToggle == Init /\ [][NextToggle]_vars

-----------------------------------------------------------------------------
(* The reciter picker: verses are started one at a time and the reciter is   *)
(* changed at any moment, also while a call is resolving or a verse plays.   *)

NextReciter ==
  \/ calls = EmptyBag /\ \E v \in Verses : play(1, v)
  \/ \E c \in BagToSet(calls) : playResolved(c)
  \/ \E c \in BagToSet(calls), started \in BOOLEAN : playSettled(c, started)
  \/ handleLoadStart
  \/ handlePlay
  \/ \E pf \in BOOLEAN, e \in Emits : handleEnded(pf, e)
  \/ \E r \in StoredReciterArgs : setReciterId(r)

SpecReciter == Init /\ [][NextReciter]_vars

-----------------------------------------------------------------------------
(* The volume and speed sliders: verses are started one at a time and the    *)
(* sliders are moved at any moment, also while a call is resolving.          *)

NextLevels ==
  \/ calls = EmptyBag /\ \E v \in Verses : play(1, v)
  \/ \E c \in BagToSet(calls) : playResolved(c)
  \/ \E c \in BagToSet(calls), started \in BOOLEAN : playSettled(c, started)
  \/ \E j \in DOMAIN timers : playTimeout(j)
  \/ handleLoadStart
  \/ handlePlay
  \/ \E x \in VolumeArgs : setVolume(x)
  \/ \E x \in SpeedArgs : setSpeed(x)

SpecLevels == Init /\ [][NextLevels]_vars

-----------------------------------------------------------------------------
(* A media backend that starts silently: audio.play() succeeds but no 'play' *)
(* is ever dispatched, so only the fallback timer of play() can declare the  *)
(* verse 'playing'.  The other signals come as usual, and the verses advance *)
(* on 'ended'.  A timer that is set fires unless it is cleared first.        *)

NextSilent ==
  \/ calls = EmptyBag /\ \E v \in Verses : play(1, v)
  \/ \E c \in BagToSet(calls) : playResolved(c)
  \/ \E c \in BagToSet(calls), started \in BOOLEAN : playSettled(c, started)
  \/ \E j \in DOMAIN timers : playTimeout(j)
  \/ handleLoadStart
  \/ handlePause
  \/ \E pf \in BOOLEAN, e \in Emits : handleEnded(pf, e)
  \/ \E e \in Emits : pause(e)
  \/ \E e \in Emits : stop(e)

SpecSilent ==
  /\ Init
  /\ [][NextSilent]_vars
  /\ WF_vars(\E j \in DOMAIN timers : playTimeout(j))

-----------------------------------------------------------------------------
(* Unattended playback: the listener chooses the repeat mode and count,      *)
(* starts one verse and leaves.  Every source resolves to a URL the handle   *)
(* can play, every start succeeds, every verse plays to its 'ended'; what    *)
(* the handle and the timers have queued is delivered.                       *)

NextUnattended ==
  \/ currentSurah = Null /\ \E m \in RepeatModes : setRepeatMode(m)
  \/ currentSurah = Null /\ \E n \in 0..MaxCountArg : setRepeatCount(n)
  \/ currentSurah = Null /\ \E v \in Verses : play(1, v)
  \/ \E c \in BagToSet(calls) : playResolved(c) /\ audio'.src.ok
  \/ \E c \in BagToSet(calls) : playSettled(c, TRUE)
  \/ \E j \in DOMAIN timers : playTimeout(j)
  \/ handleLoadStart
  \/ handlePlay
  \/ \E pf \in BOOLEAN, e \in Emits : handleEnded(pf, e)

SpecUnattended ==
  /\ Init
  /\ [][NextUnattended]_vars
  /\ WF_vars(\E c \in BagToSet(calls) : playResolved(c) /\ audio'.src.ok)
  /\ WF_vars(\E c \in BagToSet(calls) : playSettled(c, TRUE))
  /\ WF_vars(\E j \in DOMAIN timers : playTimeout(j))
  /\ WF_vars(handleLoadStart)
  /\ WF_vars(handlePlay)
  /\ WF_vars(\E pf \in BOOLEAN, e \in Emits : handleEnded(pf, e))

-----------------------------------------------------------------------------
(* The progress server: server functions take a request (its session, its   *)
(* data), decide whose progress is written and run the queries; a query is  *)
(* suspended at each statement it awaits, and the requests of several tabs  *)
(* or users interleave at those points.                                     *)

MaxRequests == 2   \* requests whose queries are suspended at the same time
MaxRows     == 3   \* rows the progress table holds in the model

Users    == {"u1", "u2"}
NoUser   == "none"                       \* no session / data.userId undefined
Statuses == {"in_progress", "memorized"}

\* every variable of the audio player but out
playerVars == <<ctlVars, prefVars, timeVars, audio, pending, calls, timers>>

\* the rows of (userId, surahNumber, ayahNumber), as the where clause selects them
Matches(row, userId, s, v) ==
  row.userId = userId /\ row.surahNumber = s /\ row.ayahNumber = v

RowsFor(table, userId, s, v) ==
  LET Hit(row) == Matches(row, userId, s, v)
  IN BagCardinality(BagOfAll(LAMBDA row : row, [row \in {x \in BagToSet(table) : Hit(x)} |-> table[row]]))

\* db.update(progress).set({status}).where(...): every matching row gets the status
SetStatus(table, userId, s, v, status) ==
  LET Write(row) == IF Matches(row, userId, s, v) THEN [row EXCEPT !.status = status] ELSE row
  IN BagOfAll(Write, table)

\* the statement a request awaits is done: a batch goes on to its next update
Finished(r) ==
  IF Len(r.todo) > 1
    THEN (requests (-) SetToBag({r})) (+) SetToBag({[r EXCEPT !.todo = Tail(r.todo), !.pc = "update"]})
    ELSE requests (-) SetToBag({r})

\* a query begins: it is suspended at its first statement
Begin(session, userId, todo, pc) ==
  /\ BagCardinality(requests) < MaxRequests
  /\ requests' = requests (+) SetToBag({[session |-> session, userId |-> userId,
                                         todo |-> todo, pc |-> pc]})

\* the user id updateAyahProgress writes for: data.userId when the client
\* sent one, else the user of the session
writerOf(sessionUser, dataUserId) ==
  IF dataUserId # NoUser THEN dataUserId ELSE sessionUser

\* updateAyahProgress({surahNumber, ayahNumber, status, userId?}) of a request
\* whose session is sessionUser
updateAyahProgress(sessionUser, dataUserId, s, v, status) ==
  LET userId == writerOf(sessionUser, dataUserId)
  IN /\ IF userId = NoUser
          THEN /\ out' = {"Unauthorized"}
               /\ requests' = requests
          ELSE /\ out' = {}
               /\ Begin(sessionUser, userId, <<[s |-> s, v |-> v, status |-> status]>>, "update")
     /\ UNCHANGED <<playerVars, progress>>

\* batchUpdateAyahProgress({updates}) of a request whose session is sessionUser
batchUpdateAyahProgress(sessionUser, updates) ==
  /\ IF sessionUser = NoUser
       THEN /\ out' = {"Unauthorized"}
            /\ requests' = requests
       ELSE /\ out' = {}
            /\ Begin(sessionUser, sessionUser, updates, "update")
  /\ UNCHANGED <<playerVars, progress>>

\* getOrCreateProgress(input), called on the server for input.userId
getOrCreateProgress(userId, s, v, status) ==
  /\ Begin(userId, userId, <<[s |-> s, v |-> v, status |-> status]>>, "select")
  /\ out' = {}
  /\ UNCHANGED <<playerVars, progress>>

\* updateProgress: the UPDATE ... RETURNING statement and the test of its result
updateProgress(r) ==
  LET u == r.todo[1]
  IN /\ BagIn(r, requests)
     /\ r.pc = "update"
     /\ progress' = SetStatus(progress, r.userId, u.s, u.v, u.status)
     /\ requests' = IF RowsFor(progress, r.userId, u.s, u.v) > 0
                      THEN Finished(r)
                      ELSE (requests (-) SetToBag({r})) (+) SetToBag({[r EXCEPT !.pc = "insert"]})
     /\ out' = {}
     /\ UNCHANGED playerVars

\* getProgress inside getOrCreateProgress: the SELECT and the test of its result
getProgress(r) ==
  LET u == r.todo[1]
  IN /\ BagIn(r, requests)
     /\ r.pc = "select"
     /\ requests' = IF RowsFor(progress, r.userId, u.s, u.v) > 0
                      THEN Finished(r)
                      ELSE (requests (-) SetToBag({r})) (+) SetToBag({[r EXCEPT !.pc = "insert"]})
     /\ out' = {}
     /\ UNCHANGED <<playerVars, progress>>

\* createProgress: the INSERT statement; the table has no unique key on
\* (userId, surahNumber, ayahNumber)
createProgress(r) ==
  LET u == r.todo[1]
  IN /\ BagIn(r, requests)
     /\ r.pc = "insert"
     /\ BagCardinality(progress) < MaxRows
     /\ progress' = progress (+) SetToBag({[userId |-> r.userId, surahNumber |-> u.s,
                                            ayahNumber |-> u.v, status |-> u.status]})
     /\ requests' = Finished(r)
     /\ out' = {}
     /\ UNCHANGED playerVars

\* the batches the model sends: two updates, of one verse or of two
Batches ==
  {<<[s |-> 1, v |-> v1, status |-> st1], [s |-> 1, v |-> v2, status |-> st2]>> :
     v1 \in Verses, v2 \in Verses, st1 \in {"in_progress"}, st2 \in {"memorized"}}

\* Requests to updateAyahProgress for one verse, with every session and every
\* data.userId
NextProgress ==
  \/ \E su \in Users \cup {NoUser}, du \in Users \cup {NoUser}, st \in Statuses :
       updateAyahProgress(su, du, 1, 1, st)
  \/ \E r \in BagToSet(requests) : updateProgress(r)
  \/ \E r \in BagToSet(requests) : createProgress(r)

SpecProgress == Init /\ [][NextProgress]_vars

\* One user, signed in in several tabs: every way to the progress table
NextUpsert ==
  \/ \E v \in Verses, st \in Statuses : updateAyahProgress("u1", NoUser, 1, v, st)
  \/ \E b \in Batches : batchUpdateAyahProgress("u1", b)
  \/ \E v \in Verses, st \in Statuses : getOrCreateProgress("u1", 1, v, st)
  \/ \E r \in BagToSet(requests) : updateProgress(r)
  \/ \E r \in BagToSet(requests) : getProgress(r)
  \/ \E r \in BagToSet(requests) : createProgress(r)

SpecUpsert == Init /\ [][NextUpsert]_vars

-----------------------------------------------------------------------------
(* Properties *)

\* C1: the most recent play() wins. Once no play() call is suspended any
\* more, the source the media handle holds is the one resolved for the
\* selected verse: the continuation of a superseded call has not overwritten
\* what the latest call assigned.
C1_MostRecentPlayWins ==
  (calls = EmptyBag /\ audio.src # NoSrc)
    => (audio.src.s = currentSurah /\ audio.src.v = currentAyah)

\* C2: a fallback timer set by one play() is cancelled by any later play():
\* the timer of an earlier call never fires once a newer call has begun, so it
\* never moves the phase (to 'playing' while the newer call is loading); and
\* at most one timer is pending.
C2_StaleTimerNeverFires ==
  /\ [][\A j \in DOMAIN timers :
          (timers[j].stale /\ playTimeout(j)) => UNCHANGED playbackState]_vars
  /\ [](Len(timers) <= 1)

\* a play() call for verse v of surah s has just begun: it is the latest of the
\* suspended calls and waits for its source to be resolved
Begun(s, v) ==
  /\ currentSurah' = s
  /\ currentAyah' = v
  /\ playbackState' = "loading"
  /\ \E c \in BagToSet(calls') : c.s = s /\ c.v = v /\ c.pc = "resolve" /\ ~c.stale
  /\ BagCardinality(calls') = BagCardinality(calls) + 1

\* the loaded source was started again and nothing else about the selection moved
Replayed ==
  /\ audio'.src = audio.src
  /\ ~audio'.paused
  /\ calls' = calls
  /\ currentSurah' = currentSurah
  /\ currentAyah' = currentAyah

\* stop() ran: the handle is paused at position 0, the phase is 'idle', no
\* 'pause' event is left that would move the phase later, no call has begun
Stopped ==
  /\ playbackState' = "idle"
  /\ audio'.paused
  /\ audio'.currentTime = 0
  /\ \A k \in DOMAIN pending' : pending'[k] # "pause"
  /\ calls' = calls
  /\ currentSurah' = currentSurah
  /\ currentAyah' = currentAyah

\* C3 (as the code has it): in repeat-verse mode with count N, while the
\* iteration is below N - 1 an 'ended' signal adds one to the iteration and
\* replays the same source; the 'ended' signal that finds the iteration at
\* N - 1 (or above) sets it to 0 and begins play of verse + 1 when there is one
\* in the surah, and calls stop() when the verse was the last.
C3_RepeatVerse ==
  [][\A pf \in BOOLEAN, e \in Emits :
       (repeatMode = "ayah" /\ handleEnded(pf, e)) =>
         IF currentRepeatIteration < repeatCount - 1
           THEN /\ currentRepeatIteration' = currentRepeatIteration + 1
                /\ Replayed
           ELSE /\ currentRepeatIteration' = 0
                /\ IF currentAyah < TotalVerses
                     THEN Begun(currentSurah, currentAyah + 1)
                     ELSE Stopped]_vars

\* C3 (as the claim has it): the N-th 'ended' signal sets the iteration to 0
\* and begins play of verse + 1, whichever verse was repeated.
C3_RepeatVerseThenNext ==
  [][\A pf \in BOOLEAN, e \in Emits :
       (repeatMode = "ayah" /\ handleEnded(pf, e)) =>
         IF currentRepeatIteration < repeatCount - 1
           THEN /\ currentRepeatIteration' = currentRepeatIteration + 1
                /\ Replayed
           ELSE /\ currentRepeatIteration' = 0
                /\ Begun(currentSurah, currentAyah + 1)]_vars

\* C3, reached: the verse was played to its end twice and replayed twice, the
\* third playing of a count of 3 is running
C3_Reached ==
  /\ "ended" \in out
  /\ repeatMode = "ayah"
  /\ repeatCount = DefaultRepeatCount
  /\ currentRepeatIteration = repeatCount - 1
  /\ ~audio.paused

\* C4: with repeatMode 'none' and the last verse of the surah loaded, the
\* 'ended' signal calls stop() and the phase settles at 'idle', also when the
\* pause inside stop() makes the handle emit a pause signal: the phase is not
\* 'paused', 'playing' or 'error', and no pause signal is left to change it.
C4_EndOfSurahStops ==
  [][\A pf \in BOOLEAN, e \in Emits :
       (repeatMode = "none" /\ currentAyah = TotalVerses /\ handleEnded(pf, e))
         => Stopped]_vars

\* C4, reached: the last verse ended in mode 'none', a pause signal was
\* handled in the same task, and the phase is 'idle'
C4_Reached ==
  /\ out = {"ended", "onPause"}
  /\ repeatMode = "none"
  /\ currentAyah = TotalVerses
  /\ audio.src.v = TotalVerses
  /\ playbackState = "idle"

\* C5: with repeatMode 'surah', 'ended' at the last verse begins play of
\* verse 1 of the same surah, 'ended' at any other verse begins play of
\* verse + 1; stop() is not called.
C5_SurahLoops ==
  [][\A pf \in BOOLEAN, e \in Emits :
       (repeatMode = "surah" /\ handleEnded(pf, e)) =>
         /\ Begun(currentSurah, IF currentAyah >= TotalVerses THEN 1 ELSE currentAyah + 1)
         /\ ~audio'.paused \/ audio'.ended]_vars

\* C5, reached: the last verse ended in mode 'surah' and verse 1 is loading
C5_Reached ==
  /\ "ended" \in out
  /\ repeatMode = "surah"
  /\ audio.src.v = TotalVerses
  /\ audio.ended
  /\ currentAyah = 1
  /\ playbackState = "loading"

\* C6: currentSurah and currentAyah are both null or both not null, in every
\* state the controls and the media events can lead to (the refs likewise).
C6_SelectionPaired ==
  /\ (currentSurah = Null) <=> (currentAyah = Null)
  /\ (currentSurahRef = Null) <=> (currentAyahRef = Null)

\* C6, reached: a verse was selected and played, and stop() kept the selection
C6_Reached ==
  /\ currentSurah # Null
  /\ currentAyah # Null
  /\ playbackState = "idle"
  /\ audio.src # NoSrc

\* the failure was reported and nothing was tried again: phase 'error', the
\* error callback invoked, the selection kept, no play() begun, no timer set
ReportedAsError ==
  /\ playbackState' = "error"
  /\ "onError" \in out'
  /\ currentSurah' = currentSurah
  /\ currentAyah' = currentAyah
  /\ BagCardinality(calls') <= BagCardinality(calls)
  /\ \A c \in BagToSet(calls') : BagIn(c, calls)
  /\ timers' = timers

\* the step gave the handle no source and did not start it
HandleLeftAlone ==
  /\ audio'.src = audio.src
  /\ audio'.paused = audio.paused
  /\ pending' = pending

\* C7 (as the code has it): when the play primitive that play() awaits
\* rejects, or the handle emits an error signal, the phase becomes 'error',
\* the error callback is invoked, the selection is kept and nothing is
\* retried. When the play primitive that togglePlayPause() awaits to resume
\* rejects, the error callback is invoked and the phase stays what it was.
C7_FailureReported ==
  [][/\ (handleError \/ \E c \in BagToSet(calls) : playSettled(c, FALSE))
          => (ReportedAsError /\ HandleLeftAlone)
     /\ (\E e \in Emits : togglePlayPause(e, TRUE))
          => /\ "onError" \in out'
             /\ UNCHANGED <<playbackState, currentSurah, currentAyah, calls, timers>>]_vars

\* C7 (as the claim has it): whenever the handle's play primitive rejects, or
\* the handle emits an error signal, the phase becomes 'error', the error
\* callback is invoked, the selection is kept and nothing is retried.
C7_EveryRejectionIsError ==
  [][(\/ handleError
      \/ \E c \in BagToSet(calls) : playSettled(c, FALSE)
      \/ \E e \in Emits : togglePlayPause(e, TRUE))
        => ReportedAsError]_vars

\* C7, reached: play() of a playable source was rejected (a later play() had
\* replaced its load, or the handle refused to start) and reported
C7_Reached ==
  /\ out = {"onError"}
  /\ playbackState = "error"
  /\ currentSurah # Null
  /\ audio.src.ok
  /\ ~audio.error

\* C8: when the verse has no playable source (the probe of the preferred
\* reciter fails and the fallback reciter's file cannot be played either),
\* the play() call that assigned that source ends with phase 'error' and the
\* error callback invoked; it sets no fallback timer, so nothing declares the
\* unusable source 'playing' after the call has ended.
C8_UnusableSourceIsError ==
  [][\A c \in BagToSet(calls) :
       (c.pc = "start" /\ c.cur /\ ~audio.src.ok
          /\ \E started \in BOOLEAN : playSettled(c, started))
         => (ReportedAsError /\ HandleLeftAlone)]_vars

\* C8, reached: the handle holds the unusable source, which it did not
\* report by an error signal, and play() has ended in phase 'error'
C8_Reached ==
  /\ out = {"onError"}
  /\ playbackState = "error"
  /\ audio.src # NoSrc
  /\ ~audio.src.ok
  /\ ~audio.error
  /\ calls = EmptyBag
  /\ timers = <<>>

\* C9: setVolume(v) stores min(1, max(0, v)), setSpeed(s) stores
\* min(2, max(0.5, s)), setRepeatCount(n) stores min(10, max(1, n)): after a
\* setter the stored volume is in [0, 1], the speed in [0.5, 2], the count in
\* [1, 10] (volume and speed in tenths).
C9_SettersClamp ==
  [][/\ \A x \in VolumeArgs : setVolume(x) =>
          (volume' = Min2(10, Max2(0, x)) /\ volume' \in 0..10)
     /\ \A x \in SpeedArgs : setSpeed(x) =>
          (speed' = Min2(20, Max2(5, x)) /\ speed' \in 5..20)
     /\ \A n \in CountArgs : setRepeatCount(n) =>
          (repeatCount' = Min2(10, Max2(1, n)) /\ repeatCount' \in 1..10)]_vars

\* C9, reached: each setter was called with a value out of range, on the low
\* side (volume -0.5, speed 0.1) or the high side (count 99)
C9_Reached ==
  /\ volume = 0
  /\ speed = 5
  /\ repeatCount = 10

\* C10 (as the code has it): seek(t) puts the handle at min(duration,
\* max(0, t)); the observable current time is set to t as it was passed.
C10_SeekClampsHandle ==
  [][\A t \in SeekArgs : seek(t) =>
       /\ audio'.currentTime = Min2(duration, Max2(0, t))
       /\ currentTime' = t]_vars

\* C10 (as the claim has it): right after seek(t) the handle's position and
\* the observable current time are both min(duration, max(0, t)), so seek
\* never leaves the observable current time outside [0, duration].
C10_SeekClampsBoth ==
  [][\A t \in SeekArgs : seek(t) =>
       /\ audio'.currentTime = Min2(duration, Max2(0, t))
       /\ currentTime' = Min2(duration, Max2(0, t))]_vars

\* C10, reached: the loaded verse has a duration and seek was called with a
\* time past its end
C10_Reached ==
  /\ duration > 0
  /\ audio.duration = duration
  /\ audio.currentTime = duration
  /\ currentTime > duration

\* C11: stop() leaves the phase 'idle', the handle at position 0, the
\* observable current time at 0 and the selection as it was.
C11_StopResets ==
  [][\A e \in Emits : stop(e) =>
       /\ playbackState' = "idle"
       /\ audio'.currentTime = 0
       /\ currentTime' = 0
       /\ currentSurah' = currentSurah
       /\ currentAyah' = currentAyah]_vars

\* C12: pause() results in phase 'paused' from any phase, 'idle' and 'paused'
\* included: after the call the phase is 'paused', or the handle has queued
\* the 'pause' event whose handler makes it so.
C12_PauseYieldsPaused ==
  [][\A e \in Emits : pause(e) =>
       \/ playbackState' = "paused"
       \/ \E k \in DOMAIN pending' : pending'[k] = "pause"]_vars

\* C13: preferences survive a reload. A fresh controller built without
\* options in the same browser has the volume, speed, repeatMode and
\* repeatCount the controller before it had, and its reciterId when that is a
\* reciter of the catalog (as 4 is): none is back at its default.
C13_PreferencesRestored ==
  [][construct =>
       /\ reciterId \in AVAILABLE_RECITERS => reciterId' = reciterId
       /\ volume' = volume
       /\ speed' = speed
       /\ repeatMode' = repeatMode
       /\ repeatCount' = repeatCount]_vars

\* C13, reached: a controller was built after setReciterId(4) and after every
\* other preference had been moved off its default
C13_Reached ==
  /\ out = {"constructed"}
  /\ reciterId = 4
  /\ volume = 5
  /\ speed = 15
  /\ repeatMode = "surah"
  /\ repeatCount = 5

\* the stored preferences after a step are those before it with field f
\* set to val: f reads val, every other field reads what it read before
Merged(f, val) ==
  LET was == getAudioPreferences(storage)
      is  == getAudioPreferences(storage')
  IN /\ is[f] = val
     /\ \A g \in PrefFields \ {f} : is[g] = was[g]

\* C14: saveAudioPreferences(partial) merges. After each setter (whose effect
\* saves its one field) getAudioPreferences() reads the new value for that
\* field and the value stored before for every other field; saved onto an
\* empty storage, the defaults read back for the fields not named.
C14_SaveMerges ==
  [][/\ \A x \in VolumeArgs : setVolume(x) => Merged("volume", volume')
     /\ \A x \in SpeedArgs : setSpeed(x) => Merged("speed", speed')
     /\ \A n \in CountArgs : setRepeatCount(n) => Merged("repeatCount", repeatCount')
     /\ \A m \in RepeatModes : setRepeatMode(m) => Merged("repeatMode", repeatMode')
     /\ \A r \in StoredReciterArgs : setReciterId(r) => Merged("defaultReciterId", reciterId')
     /\ firstUse => getAudioPreferences(storage') = DEFAULT_AUDIO_PREFERENCES]_vars

\* C14, reached: five partial saves, one field each, have added up
C14_Reached ==
  /\ storage.present
  /\ storage.item.volume = 0
  /\ storage.item.speed = 20
  /\ storage.item.repeatMode = "ayah"
  /\ storage.item.repeatCount = 10
  /\ storage.item.defaultReciterId = 4
  /\ out = {}

\* C15: a controller built where no preferences are stored starts with phase
\* 'idle', no selection, current time 0, duration 0, volume 1.0, speed 1.0,
\* repeatMode 'none', repeatCount 3, iteration 0, reciter 7; isPlaying() is
\* false.
C15_FirstUseDefaults ==
  [][firstUse =>
       /\ playbackState' = "idle"
       /\ currentSurah' = Null /\ currentAyah' = Null
       /\ currentTime' = 0 /\ duration' = 0
       /\ volume' = DefaultVolume /\ speed' = DefaultSpeed
       /\ repeatMode' = "none" /\ repeatCount' = DefaultRepeatCount
       /\ currentRepeatIteration' = 0
       /\ reciterId' = DEFAULT_RECITER_ID
       /\ ~isPlaying']_vars

\* C15, reached: a controller just built, with every default
C15_Reached ==
  /\ out = {"constructed"}
  /\ playbackState = "idle"
  /\ currentSurah = Null /\ currentAyah = Null
  /\ volume = DefaultVolume /\ speed = DefaultSpeed
  /\ repeatMode = "none" /\ repeatCount = DefaultRepeatCount
  /\ reciterId = DEFAULT_RECITER_ID

\* playNext(T) with the surah's verse count T handed in: below the last verse
\* it begins play of verse + 1; at the last verse it begins play of verse 1 in
\* repeat-surah mode and stops otherwise; with no selection nothing moves
C16_NextWithTotal ==
  [][\A e \in Emits : playNext(TotalVerses, e) =>
       IF currentAyah = Null \/ currentSurah = Null
         THEN UNCHANGED <<ctlVars, audio, pending, calls, timers>>
         ELSE IF currentAyah < TotalVerses
           THEN Begun(currentSurah, currentAyah + 1)
           ELSE IF repeatMode = "surah"
             THEN Begun(currentSurah, 1)
             ELSE playbackState' = "idle" /\ audio'.paused /\ calls' = calls]_vars

\* C16: playNext from a verse that is not the last of the surah begins play
\* of the next verse: it never stops playback and never jumps to verse 1,
\* whether called with the verse count or, as the controller's interface
\* declares it, without an argument.
C16_NextNeverLeavesMidSurah ==
  [][\A tv \in {0, TotalVerses}, e \in Emits :
       (playNext(tv, e) /\ currentSurah # Null /\ currentAyah # Null
          /\ currentAyah < TotalVerses)
       => Begun(currentSurah, currentAyah + 1)]_vars

\* C17: playPrevious with the selection at verse v > 1 begins play of verse
\* v - 1 of the same surah; at verse 1, or with no selection, it leaves the
\* phase, the selection, the repeat iteration and the media source as they
\* were and begins no call.
C17_PreviousOrNothing ==
  [][playPrevious =>
       IF currentSurah # Null /\ currentAyah # Null /\ currentAyah > 1
         THEN Begun(currentSurah, currentAyah - 1)
         ELSE /\ playbackState' = playbackState
              /\ currentSurah' = currentSurah
              /\ currentAyah' = currentAyah
              /\ currentRepeatIteration' = currentRepeatIteration
              /\ audio' = audio
              /\ calls' = calls /\ timers' = timers /\ pending' = pending]_vars

\* C17, reached: verse 1 is selected and being resolved while the handle
\* still holds the source of verse 2, as after playPrevious from verse 2
C17_Reached ==
  /\ currentSurah = 1
  /\ currentAyah = 1
  /\ playbackState = "loading"
  /\ audio.src.v = 2
  /\ \E c \in BagToSet(calls) : c.v = 1 /\ c.pc = "resolve" /\ ~c.stale

\* the verse counts canPlayNext is asked about: below, at and above the
\* verses a selection can hold
TotalArgs == 1..(TotalVerses + 1)

\* C18: canPlayNext(T) is false when there is no selection; with a selection
\* at verse v it is true exactly when v < T or repeatMode is 'surah', so at
\* v = T it is false unless repeatMode is 'surah'. canPlayPrevious() is true
\* exactly when a selection exists and v > 1.
C18_CanPlay ==
  LET selection == currentSurah # Null /\ currentAyah # Null
  IN /\ \A T \in TotalArgs :
          /\ ~selection => ~canPlayNext(T)
          /\ selection => (canPlayNext(T) <=> (currentAyah < T \/ repeatMode = "surah"))
          /\ (selection /\ currentAyah = T) => (canPlayNext(T) <=> repeatMode = "surah")
     /\ canPlayPrevious <=> (selection /\ currentAyah > 1)

\* C18, reached: at the last verse in repeat-surah mode, where
\* canPlayNext(T) is true by the repeat mode alone and canPlayPrevious is true
C18_Reached ==
  /\ currentSurah # Null
  /\ currentAyah = TotalVerses
  /\ repeatMode = "surah"
  /\ canPlayNext(TotalVerses)
  /\ ~(currentAyah < TotalVerses)
  /\ canPlayPrevious

\* C19: togglePlayPause() with nothing selected, from any phase other than
\* 'playing', changes nothing: phase, selection, repeat iteration and the
\* handle stay as they were, no source resolution begins, no start of the
\* handle is asked for and no timer is set.
C19_ToggleWithoutSelection ==
  [][\A e \in Emits, rejected \in BOOLEAN :
       (/\ togglePlayPause(e, rejected)
        /\ playbackState # "playing"
        /\ (currentSurah = Null \/ currentAyah = Null))
       => /\ playbackState' = playbackState
          /\ currentSurah' = currentSurah
          /\ currentAyah' = currentAyah
          /\ currentRepeatIteration' = currentRepeatIteration
          /\ audio' = audio
          /\ calls' = calls
          /\ pending' = pending
          /\ timers' = timers
          /\ "onError" \notin out']_vars

\* C19, reached: nothing was ever selected, the phase is 'paused' (pause()
\* on a handle that reports it) and a control that did nothing has returned
C19_Reached ==
  /\ currentSurah = Null
  /\ currentAyah = Null
  /\ playbackState = "paused"
  /\ audio.src = NoSrc
  /\ calls = EmptyBag
  /\ out = {}

\* C20 (as the code has it): togglePlayPause() with a selection. Phase
\* 'playing': the handle is paused and no call begins; a handle that was
\* playing reports the pause, which makes the phase 'paused'. Phase not
\* 'playing' and a source loaded and not in the ended state: the same source is
\* started where it stands, no call begins (no URL is resolved again), the
\* repeat iteration and the selection stay. Source absent or handle in the
\* ended state: play() of the current selection begins.
C20_Toggle ==
  [][\A e \in Emits, rejected \in BOOLEAN :
       (togglePlayPause(e, rejected) /\ currentSurah # Null /\ currentAyah # Null) =>
         IF playbackState = "playing"
           THEN /\ audio'.paused
                /\ calls' = calls
                /\ ~audio.paused =>
                     \/ playbackState' = "paused"
                     \/ \E k \in DOMAIN pending' : pending'[k] = "pause"
           ELSE IF audio.src # NoSrc /\ ~audio.ended
             THEN /\ Replayed
                  /\ audio'.currentTime = audio.currentTime
                  /\ currentRepeatIteration' = currentRepeatIteration
             ELSE Begun(currentSurah, currentAyah)]_vars

\* C20, reached: in repeat-verse mode, after one repeat, the paused verse was
\* resumed by the button: the handle plays, its 'play' is on the way, the
\* iteration is still 1 and no call is in flight
C20_Reached ==
  /\ currentSurah # Null
  /\ repeatMode = "ayah"
  /\ currentRepeatIteration = 1
  /\ playbackState = "paused"
  /\ ~audio.paused
  /\ pending = <<"play">>
  /\ calls = EmptyBag
  /\ out = {}

\* C20 (as stated, its example): after a verse ended and playback was
\* stopped (the 'ended' handler called stop(), phase 'idle'),
\* togglePlayPause() begins play() of the current selection again.
C20_ToggleAfterEndReplays ==
  [][\A e \in Emits, rejected \in BOOLEAN :
       (/\ togglePlayPause(e, rejected)
        /\ currentSurah # Null /\ currentAyah # Null
        /\ playbackState = "idle"
        /\ "ended" \in out)
       => Begun(currentSurah, currentAyah)]_vars

\* C21: setRepeatMode(mode) zeroes the repeat iteration: after the call the
\* observable iteration and the iteration the next 'ended' handler reads (the
\* ref) are both 0, whatever they were before.
C21_ModeZeroesIteration ==
  [][\A m \in RepeatModes : setRepeatMode(m) =>
       /\ repeatMode' = m
       /\ currentRepeatIteration' = 0
       /\ currentRepeatIterationRef' = 0]_vars

\* C21, reached: the mode was switched to 'none' (only setRepeatMode stores a
\* mode) while a verse plays with a 'play' on the way, as after a replay; the
\* iteration and its ref are 0
C21_Reached ==
  /\ repeatMode = "none"
  /\ storage.item.repeatMode = "none"
  /\ currentRepeatIteration = 0
  /\ currentRepeatIterationRef = 0
  /\ pending = <<"play">>
  /\ ~audio.paused
  /\ playbackState = "playing"
  /\ calls = EmptyBag
  /\ out = {}

\* C22: setReciterId(id) changes the preferred reciter, in the state and in
\* the stored preferences, and nothing else: phase, selection, repeat
\* iteration, position, the handle with its source, the calls in flight, the
\* queued events and the timers stay. The new reciter is used by the next
\* play(): a call records the reciter of the moment it begins and resolves its
\* source for that reciter or, missing that, for the fallback reciter.
C22_ReciterOnlyForNextPlay ==
  [][/\ \A r \in StoredReciterArgs : setReciterId(r) =>
          /\ reciterId' = r
          /\ getAudioPreferences(storage').defaultReciterId = r
          /\ UNCHANGED <<ctlVars, timeVars, audio, calls, pending, timers>>
     /\ \A v \in Verses : play(1, v) =>
          \E c \in BagToSet(calls') : c.pc = "resolve" /\ ~c.stale /\ c.reciterId = reciterId
     /\ \A c \in BagToSet(calls) : playResolved(c) =>
          audio'.src.r \in {getAudioUrl(c.s, c.v, c.reciterId).r, DEFAULT_RECITER_ID}]_vars

\* C22, reached: the reciter was changed to 4 while a call begun under
\* reciter 7 is still in flight; the call keeps reciter 7
C22_Reached ==
  /\ reciterId = 4
  /\ storage.item.defaultReciterId = 4
  /\ \E c \in BagToSet(calls) : c.reciterId = 7 /\ ~c.stale
  /\ out = {}

\* the address in a resolved source: folder of the reciter, surah, verse
UrlOf(src) == [s |-> src.s, v |-> src.v, r |-> src.r]

\* the address the claim names for verse (s, v), reciter r and a probe outcome
ResolvedAs(s, v, r, exists) ==
  IF exists /\ r \in AVAILABLE_RECITERS
    THEN [s |-> s, v |-> v, r |-> r]
    ELSE [s |-> s, v |-> v, r |-> DEFAULT_RECITER_ID]

\* C23: getValidAudioUrl(s, v, r) gives the URL of reciter r when the probe of
\* that URL succeeds and the URL of the fallback reciter 7 for the same verse
\* when it fails; an unknown reciter id resolves to the fallback reciter's URL
\* either way; nothing but (s, v, r) and the probe outcome enters the URL. The
\* source a play() call assigns is the URL so resolved for the reciter the
\* call began with.
C23_PreferredThenFallback ==
  [][/\ \A s \in Surahs, v \in Verses, r \in StoredReciterArgs,
          exists \in BOOLEAN, fbok \in BOOLEAN :
          UrlOf(getValidAudioUrl(s, v, r, exists, fbok)) = ResolvedAs(s, v, r, exists)
     /\ \A c \in BagToSet(calls) : playResolved(c) =>
          \E exists \in BOOLEAN : UrlOf(audio'.src) = ResolvedAs(c.s, c.v, c.reciterId, exists)]_vars

\* C23, reached: a call begun under reciter 4 has assigned the fallback
\* reciter's file of its verse (the probe of reciter 4's file failed)
C23_Reached ==
  \E c \in BagToSet(calls) :
    /\ c.pc = "start" /\ c.cur
    /\ c.reciterId = 4
    /\ UrlOf(audio.src) = [s |-> c.s, v |-> c.v, r |-> DEFAULT_RECITER_ID]

\* C24: play(s, v) in the step of the call sets the phase 'loading', the
\* selection (s, v) and the repeat iteration 0, and leaves the handle alone:
\* no source is assigned and no start is asked for. A source is assigned, and
\* the handle started, only by the continuation of a call that was waiting
\* for its resolution; while the newest call waits, the selection is its verse.
C24_LoadingBeforeSource ==
  [][/\ \A s \in Surahs, v \in Verses : play(s, v) =>
          /\ playbackState' = "loading"
          /\ currentSurah' = s /\ currentAyah' = v
          /\ currentRepeatIteration' = 0
          /\ audio' = audio
          /\ pending' = pending
          /\ \E c \in BagToSet(calls') : c.s = s /\ c.v = v /\ c.pc = "resolve"
     /\ audio'.src # audio.src =>
          \E c \in BagToSet(calls) :
            /\ c.pc = "resolve"
            /\ playResolved(c)
            /\ UrlOf(audio'.src) \in {ResolvedAs(c.s, c.v, c.reciterId, e) : e \in BOOLEAN}
            /\ ~audio'.paused
     /\ \A c \in BagToSet(calls') :
          (c.pc = "resolve" /\ ~c.stale) => (currentSurah' = c.s /\ currentAyah' = c.v)]_vars

\* C24, reached: play(1, 2) was called while verse 1 plays; the phase is
\* 'loading' and the selection verse 2, the handle still plays verse 1
C24_Reached ==
  /\ playbackState = "loading"
  /\ currentSurah = 1 /\ currentAyah = 2
  /\ currentRepeatIteration = 0
  /\ audio.src.v = 1 /\ ~audio.paused
  /\ \E c \in BagToSet(calls) : c.v = 2 /\ c.pc = "resolve"
  /\ out = {}

\* C25: whenever the phase becomes 'playing', the handle's volume and
\* playback rate are the controller's volume and speed, also when setVolume
\* or setSpeed was called while the verse's source was still resolving.
C25_LevelsSurviveVerseChange ==
  [][(playbackState # "playing" /\ playbackState' = "playing") =>
       /\ audio'.volume = volume'
       /\ audio'.playbackRate = speed']_vars

\* the fallback timer of the newest play() call is set and not yet fired
Armed == \E j \in DOMAIN timers : timers[j].held /\ ~timers[j].stale

\* C26: on a backend that emits no start signal, once audio.play() has
\* succeeded for the current call and its fallback timer is set, the phase
\* does not stay 'loading': unless a call or a signal clears or supersedes the
\* timer, it fires, and fired at phase 'loading' it sets the phase 'playing'.
\* A timer changes the phase only from 'loading', and only to 'playing'.
C26_FallbackStart ==
  /\ (playbackState = "loading" /\ Armed) ~> (playbackState # "loading" \/ ~Armed)
  /\ [][\A j \in DOMAIN timers : playTimeout(j) =>
          /\ (timers[j].held /\ ~timers[j].stale /\ playbackState = "loading")
               => playbackState' = "playing"
          /\ playbackState' # playbackState
               => (playbackState = "loading" /\ playbackState' = "playing")]_vars

\* the rows a step wrote: those the table holds more copies of after it
Written == {row \in BagToSet(progress') : CopiesIn(row, progress') > CopiesIn(row, progress)}

\* C27: updateAyahProgress writes for the authenticated user. Every row a
\* query of a request with a session writes carries the user id of that
\* session, whatever data.userId the client sent; a request with neither a
\* session nor a userId fails with 'Unauthorized' and begins no query.
C27_WritesForSessionUser ==
  [][/\ \A r \in BagToSet(requests) :
          ((updateProgress(r) \/ createProgress(r)) /\ r.session # NoUser)
          => \A row \in Written : row.userId = r.session
     /\ \A st \in Statuses : updateAyahProgress(NoUser, NoUser, 1, 1, st) =>
          /\ out' = {"Unauthorized"}
          /\ progress' = progress
          /\ requests' = requests]_vars

\* C28: the progress table holds at most one row for a (userId, surahNumber,
\* ayahNumber), however the calls of updateProgress, batchUpdateProgress and
\* getOrCreateProgress for it interleave.
C28_OneRowPerKey ==
  \A u \in Users, v \in Verses : RowsFor(progress, u, 1, v) <= 1

\* C29: in every reachable state 0 <= iteration <= repeatCount - 1, also after
\* setRepeatCount lowers the count while a verse is mid-way through its
\* repeats, and the iteration is 0 whenever the repeat mode is not 'ayah'.
C29_IterationBound ==
  /\ 0 <= currentRepeatIteration
  /\ currentRepeatIteration <= repeatCount - 1
  /\ repeatMode # "ayah" => currentRepeatIteration = 0

\* The parts of C29 that do not depend on the count
IterationZeroOutsideAyah ==
  /\ 0 <= currentRepeatIteration
  /\ repeatMode # "ayah" => currentRepeatIteration = 0

\* C30: unattended playback terminates.  With repeatMode 'none' or 'ayah',
\* once play(s, v) has begun and every verse resolves and plays to its end,
\* the phase becomes 'idle' with the last verse of the surah selected; the
\* selection moves only from a verse that was loaded and playing to the verse
\* after it, so the verses v..totalVerses are played in order, none skipped
\* and none revisited.  With repeatMode 'surah' the phase never becomes
\* 'idle' once playback has begun.
C30_UnattendedPlayback ==
  /\ (repeatMode # "surah" /\ currentAyah # Null)
       ~> (playbackState = "idle" /\ currentAyah = TotalVerses)
  /\ [][(repeatMode # "surah" /\ currentAyah # Null /\ currentAyah' # currentAyah) =>
          /\ audio.src.v = currentAyah
          /\ ~audio.paused
          /\ currentAyah' = currentAyah + 1]_vars
  /\ [][(repeatMode # "surah" /\ currentAyah # Null /\ playbackState' = "idle") =>
          /\ audio.src.v = TotalVerses
          /\ currentAyah' = TotalVerses]_vars
  /\ [](repeatMode = "surah" /\ currentAyah # Null => playbackState # "idle")

\* C30 is met: in 'ayah' mode with the default count the last verse has been
\* played and the controller is idle on it
C30_Reached ==
  /\ repeatMode = "ayah"
  /\ repeatCount = DefaultRepeatCount
  /\ playbackState = "idle"
  /\ currentAyah = TotalVerses
  /\ audio.src.v = TotalVerses
  /\ calls = EmptyBag

====
